---- MODULE Spec2Model ----
(***************************************************************************)
(* Model of the nutrition pipeline of azurite_function.py (AzuriteFunction:*)
(* process_data, store_in_nosql, query_nosql) and of the analysis script   *)
(* data_analysis.py (load_and_clean_data, calculate_average_macros,        *)
(* add_new_metrics).                                                       *)
(*                                                                         *)
(* Conventions.                                                            *)
(*  - A diet type is a Python str modelled as a sequence of one-character  *)
(*    strings, so that lower(), replace() and < are computed character by  *)
(*    character.  A cuisine type, which the program only compares for      *)
(*    equality, is an opaque string.                                       *)
(*  - A float is an exact fraction [n, d] with d > 0; d = 0 encodes the    *)
(*    IEEE specials: NaN = [0,0], +inf = [1,0], -inf = [-1,0].  Rounding   *)
(*    of binary floating point is not modelled.                            *)
(*  - A DataFrame is [columns, rows]; a JSON file of the simulated NoSQL   *)
(*    directory is <<>> when the file does not exist and <<content>> when  *)
(*    it does.  json.dump followed by json.load returns lists, dicts (in   *)
(*    insertion order), strings, ints and floats (NaN included) unchanged, *)
(*    which are the only values the program stores.                        *)
(***************************************************************************)
EXTENDS Integers, Sequences, FiniteSets, TLC

VARIABLES
    blob,       \* container "datasets", blob "AllDiets.csv" in Azurite: <<>> or <<df>>
    store,      \* the files of directory simulated_nosql
    clock,      \* datetime.now(), one tick per call of process_data
    prior,      \* blob, store and return value as they were when the last process_data call began
    ret,        \* the last call of the AzuriteFunction API and what it returned
    csv,        \* the file All_Diets.csv read by data_analysis.py: <<df>>
    analysis    \* what the last run of data_analysis.main computed

vars == <<blob, store, clock, prior, ret, csv, analysis>>

(***************************************************************************)
(* Bounds of the model.                                                    *)
(***************************************************************************)
MaxRuns == 2          \* calls of process_data in one behaviour
MaxRecords == 2       \* rows of a CSV uploaded by process_data
MaxRows == 2          \* rows of a CSV in the aggregation checks
MaxCuisineRows == 6   \* rows of a CSV in the cuisine ranking checks
MaxCaseRows == 2      \* rows of a CSV in the diet type spelling checks

(***************************************************************************)
(* Python str                                                              *)
(***************************************************************************)
\* The characters used, in code point order: ' ' < 'A'..'Z' < '_' < 'a'..'z'.
Ascii ==
    << " ",
       "A", "B", "C", "D", "E", "F", "G", "H", "I", "J", "K", "L", "M",
       "N", "O", "P", "Q", "R", "S", "T", "U", "V", "W", "X", "Y", "Z",
       "_",
       "a", "b", "c", "d", "e", "f", "g", "h", "i", "j", "k", "l", "m",
       "n", "o", "p", "q", "r", "s", "t", "u", "v", "w", "x", "y", "z" >>

Ord(c) == CHOOSE i \in DOMAIN Ascii : Ascii[i] = c

\* str.lower() on one character: 'A'..'Z' (Ascii[2..27]) map to 'a'..'z' (Ascii[29..54]).
lower_char(c) == IF Ord(c) \in 2..27 THEN Ascii[Ord(c) + 27] ELSE c

\* str.lower()
lower(s) == [i \in DOMAIN s |-> lower_char(s[i])]

\* str.replace(old, new) for one-character old and new.
replace(s, old, new) == [i \in DOMAIN s |-> IF s[i] = old THEN new ELSE s[i]]

\* Python's < on str: lexicographic by code point.
RECURSIVE StrLess(_, _)
StrLess(a, b) ==
    IF a = <<>> THEN b # <<>>
    ELSE IF b = <<>> THEN FALSE
    ELSE IF a[1] = b[1] THEN StrLess(Tail(a), Tail(b))
    ELSE Ord(a[1]) < Ord(b[1])

(***************************************************************************)
(* float                                                                   *)
(***************************************************************************)
Abs(x) == IF x < 0 THEN -x ELSE x

RECURSIVE GCD(_, _)
GCD(a, b) == IF b = 0 THEN a ELSE GCD(b, a % b)

NaN == [n |-> 0, d |-> 0]
Inf == [n |-> 1, d |-> 0]
NegInf == [n |-> -1, d |-> 0]

\* The float n/d for d # 0, in lowest terms with a positive denominator.
Frac(n, d) ==
    LET g == GCD(Abs(n), Abs(d))
        s == IF d < 0 THEN -1 ELSE 1
    IN  [n |-> s * (n \div g), d |-> s * (d \div g)]

Float(i) == [n |-> i, d |-> 1]

isna(x) == x = NaN
IsFinite(x) == x.d > 0
IsZero(x) == x.d > 0 /\ x.n = 0

\* x + y and x < y on finite floats.
FAdd(x, y) == Frac(x.n * y.d + y.n * x.d, x.d * y.d)
FLess(x, y) == x.n * y.d < y.n * x.d

\* numpy's elementwise x / y on floats: NaN propagates, x / 0 is +-inf and 0 / 0 is
\* NaN (a RuntimeWarning, not an exception).
np_divide(x, y) ==
    IF isna(x) \/ isna(y) THEN NaN
    ELSE IF IsZero(y) THEN (IF x.n > 0 THEN Inf ELSE IF x.n < 0 THEN NegInf ELSE NaN)
    ELSE Frac(x.n * y.d, x.d * y.n)

(***************************************************************************)
(* pandas                                                                  *)
(***************************************************************************)
\* Sequence helpers.
Range(s) == {s[i] : i \in DOMAIN s}

\* Series.unique(): the distinct values in order of first appearance.
RECURSIVE unique(_)
unique(s) ==
    IF s = <<>> THEN <<>>
    ELSE LET r == unique(SubSeq(s, 1, Len(s) - 1))
             x == s[Len(s)]
         IN  IF x \in Range(r) THEN r ELSE Append(r, x)

\* Series[col] of a list of rows.
Column(rows, col) == [i \in DOMAIN rows |-> rows[i][col]]

\* df[df["Diet_type"] == diet_type]
RowsOf(rows, diet_type) == SelectSeq(rows, LAMBDA r : r.Diet_type = diet_type)

\* Series.dropna() of a float column.
dropna(s) == SelectSeq(s, LAMBDA x : ~isna(x))

RECURSIVE FSum(_)
FSum(s) == IF s = <<>> THEN Float(0) ELSE FAdd(s[1], FSum(Tail(s)))

\* A mutant of mean: NaN counts as 0 in the sum and as a value in the count.
mean_counting_nulls(s) ==
    IF s = <<>> THEN NaN
    ELSE LET t == FSum(dropna(s)) IN Frac(t.n, t.d * Len(s))

\* Series.mean(): skipna=True, NaN when no value is left.
mean(s) ==
    LET v == dropna(s)
    IN  IF v = <<>> THEN NaN
        ELSE LET t == FSum(v) IN Frac(t.n, t.d * Len(v))

RECURSIVE FMax(_)
FMax(v) ==
    IF Len(v) = 1 THEN v[1]
    ELSE LET m == FMax(Tail(v)) IN IF FLess(m, v[1]) THEN v[1] ELSE m

RECURSIVE FMin(_)
FMin(v) ==
    IF Len(v) = 1 THEN v[1]
    ELSE LET m == FMin(Tail(v)) IN IF FLess(v[1], m) THEN v[1] ELSE m

\* Series.max() and Series.min(): skipna=True, NaN when no value is left.
max(s) == LET v == dropna(s) IN IF v = <<>> THEN NaN ELSE FMax(v)
min(s) == LET v == dropna(s) IN IF v = <<>> THEN NaN ELSE FMin(v)

\* The sorted group keys of groupby("Diet_type") (sort=True): insertion sort of the
\* distinct keys by str <.
RECURSIVE InsertKey(_, _)
InsertKey(sorted, k) ==
    IF sorted = <<>> THEN <<k>>
    ELSE IF StrLess(k, sorted[1]) THEN <<k>> \o sorted
    ELSE <<sorted[1]>> \o InsertKey(Tail(sorted), k)

RECURSIVE SortKeys(_)
SortKeys(s) == IF s = <<>> THEN <<>> ELSE InsertKey(SortKeys(Tail(s)), s[1])

\* The group keys of df.groupby("Diet_type"), sorted.
group_keys(rows) == SortKeys(unique(Column(rows, "Diet_type")))

\* Series.value_counts(): one [value, count] per distinct value, first counted in order
\* of first appearance, then sorted by descending count with a sort that keeps equal
\* counts in that order.
Count(s, x) == Cardinality({i \in DOMAIN s : s[i] = x})

RECURSIVE InsertCount(_, _)
InsertCount(sorted, e) ==
    IF sorted = <<>> THEN <<e>>
    ELSE IF sorted[1].count >= e.count THEN <<sorted[1]>> \o InsertCount(Tail(sorted), e)
    ELSE <<e>> \o sorted

\* A mutant of sort_values: equal counts come out in reverse order of first appearance.
RECURSIVE sort_values_unstable(_)
sort_values_unstable(s) ==
    IF s = <<>> THEN <<>>
    ELSE InsertCount(sort_values_unstable(Tail(s)), s[1])

RECURSIVE sort_values(_)
sort_values(s) ==
    IF s = <<>> THEN <<>>
    ELSE InsertCount(sort_values(SubSeq(s, 1, Len(s) - 1)), s[Len(s)])

value_counts(s) ==
    LET u == unique(s)
    IN  sort_values([i \in DOMAIN u |-> [value |-> u[i], count |-> Count(s, u[i])]])

\* Series.head(k)
head(s, k) == SubSeq(s, 1, IF Len(s) < k THEN Len(s) ELSE k)

(***************************************************************************)
(* azurite_function.py                                                     *)
(***************************************************************************)
TopStats == 3   \* .head(3) of detailed_statistics' top_cuisines
TopDocs == 5    \* .head(5) of a document's cuisines

blob_name == "AllDiets.csv"
container_name == "datasets"

Success == "Data processed and stored successfully"
FailedConnection == "Failed: Azurite is not running or not accessible"
FailedUpload == "Failed: Could not upload CSV to Azurite"
FailedRead == "Failed: Could not read data from Azurite"
Raised == "(exception)"       \* process_data did not return: an exception left it
NotCalled == "(not called)"

\* The directory simulated_nosql with none of its files.
EmptyStore ==
    [avg_macronutrients |-> <<>>, detailed_statistics |-> <<>>,
     metadata |-> <<>>, diet_documents |-> <<>>]

\* calculate_averages: df.groupby("Diet_type")[["Protein(g)", "Carbs(g)", "Fat(g)"]].mean(),
\* one row per diet type, in sorted order of the diet types.
calculate_averages(df) ==
    LET keys == group_keys(df.rows)
    IN  [i \in DOMAIN keys |->
            LET g == RowsOf(df.rows, keys[i])
            IN  [Diet_type |-> keys[i],
                 Protein_g |-> mean(Column(g, "Protein_g")),
                 Carbs_g |-> mean(Column(g, "Carbs_g")),
                 Fat_g |-> mean(Column(g, "Fat_g"))]]

\* diet_data["Cuisine_type"].value_counts().head(k).to_dict()
top_cuisines(diet_data, k) == head(value_counts(Column(diet_data, "Cuisine_type")), k)

\* A mutant of detailed_stats: count is the number of rows of the whole frame.
detailed_stats_len_df(rows) ==
    LET keys == unique(Column(rows, "Diet_type"))
    IN  [i \in DOMAIN keys |->
            LET diet_data == RowsOf(rows, keys[i])
            IN  [diet_type |-> keys[i],
                 count |-> Len(rows),
                 avg_protein |-> mean(Column(diet_data, "Protein_g")),
                 avg_carbs |-> mean(Column(diet_data, "Carbs_g")),
                 avg_fat |-> mean(Column(diet_data, "Fat_g")),
                 max_protein |-> max(Column(diet_data, "Protein_g")),
                 min_protein |-> min(Column(diet_data, "Protein_g")),
                 top_cuisines |-> top_cuisines(diet_data, TopStats)]]

\* Step 2 of store_in_nosql: the dict detailed_stats, one entry per diet type in order
\* of first appearance (df["Diet_type"].unique()).
detailed_stats(rows) ==
    LET keys == unique(Column(rows, "Diet_type"))
    IN  [i \in DOMAIN keys |->
            LET diet_data == RowsOf(rows, keys[i])
            IN  [diet_type |-> keys[i],
                 count |-> Len(diet_data),
                 avg_protein |-> mean(Column(diet_data, "Protein_g")),
                 avg_carbs |-> mean(Column(diet_data, "Carbs_g")),
                 avg_fat |-> mean(Column(diet_data, "Fat_g")),
                 max_protein |-> max(Column(diet_data, "Protein_g")),
                 min_protein |-> min(Column(diet_data, "Protein_g")),
                 top_cuisines |-> top_cuisines(diet_data, TopStats)]]

\* Step 3 of store_in_nosql: the dict metadata.
metadata(rows, now) ==
    [processed_at |-> now,
     total_records |-> Len(rows),
     diet_types |-> unique(Column(rows, "Diet_type")),
     cuisine_types |-> unique(Column(rows, "Cuisine_type")),
     source_blob |-> blob_name,
     source_container |-> container_name]

\* A mutant of document_id: the spaces are kept.
document_id_keeping_spaces(diet_type) == lower(diet_type)

\* diet_type.lower().replace(" ", "_")
document_id(diet_type) == replace(lower(diet_type), " ", "_")

\* Step 4 of store_in_nosql: the list documents, one per row of avg_macros.
documents(avg_macros, rows, now) ==
    [i \in DOMAIN avg_macros |->
        LET row == avg_macros[i]
            diet_type == row.Diet_type
            diet_data == RowsOf(rows, diet_type)
        IN  [id |-> document_id(diet_type),
             diet_type |-> diet_type,
             macronutrients |->
                 [protein_g |-> row.Protein_g, carbs_g |-> row.Carbs_g, fat_g |-> row.Fat_g],
             recipe_count |-> Len(diet_data),
             cuisines |-> top_cuisines(diet_data, TopDocs),
             created_at |-> now,
             updated_at |-> now]]

\* A mutant of store_in_nosql: the new documents are appended to those already in
\* diet_documents.json.
store_in_nosql_appending(avg_macros, df, now, old) ==
    LET s1 == [old EXCEPT !.avg_macronutrients = <<avg_macros>>]
    IN  IF "Cuisine_type" \notin df.columns /\ df.rows # <<>>
        THEN [store |-> s1, saved |-> <<"avg_macronutrients.json">>, raised |-> TRUE]
        ELSE IF "Cuisine_type" \notin df.columns
        THEN [store |-> [s1 EXCEPT !.detailed_statistics = << <<>> >>],
              saved |-> <<"avg_macronutrients.json", "detailed_statistics.json">>,
              raised |-> TRUE]
        ELSE [store |->
                [avg_macronutrients |-> <<avg_macros>>,
                 detailed_statistics |-> <<detailed_stats(df.rows)>>,
                 metadata |-> <<metadata(df.rows, now)>>,
                 diet_documents |->
                    << (IF old.diet_documents = <<>> THEN <<>> ELSE old.diet_documents[1])
                       \o documents(avg_macros, df.rows, now) >>],
              saved |-> <<"avg_macronutrients.json", "detailed_statistics.json",
                          "metadata.json", "diet_documents.json">>,
              raised |-> FALSE]

\* A mutant of store_in_nosql: detailed_statistics.json is updated, not overwritten
\* (the entries of the earlier file are kept in front of the new ones).
store_in_nosql_merging(avg_macros, df, now, old) ==
    LET s1 == [old EXCEPT !.avg_macronutrients = <<avg_macros>>]
    IN  IF "Cuisine_type" \notin df.columns /\ df.rows # <<>>
        THEN [store |-> s1, saved |-> <<"avg_macronutrients.json">>, raised |-> TRUE]
        ELSE IF "Cuisine_type" \notin df.columns
        THEN [store |-> [s1 EXCEPT !.detailed_statistics = << <<>> >>],
              saved |-> <<"avg_macronutrients.json", "detailed_statistics.json">>,
              raised |-> TRUE]
        ELSE [store |->
                [avg_macronutrients |-> <<avg_macros>>,
                 detailed_statistics |->
                    << (IF old.detailed_statistics = <<>> THEN <<>>
                        ELSE old.detailed_statistics[1])
                       \o detailed_stats(df.rows) >>,
                 metadata |-> <<metadata(df.rows, now)>>,
                 diet_documents |-> <<documents(avg_macros, df.rows, now)>>],
              saved |-> <<"avg_macronutrients.json", "detailed_statistics.json",
                          "metadata.json", "diet_documents.json">>,
              raised |-> FALSE]

\* store_in_nosql: the four files are written one after the other with open(..., "w").
\* df["Cuisine_type"] raises KeyError when the CSV has no such column: in step 2
\* (line 163) when the frame has a row, else in step 3 (line 179).  The files written
\* before the exception stay written.
store_in_nosql(avg_macros, df, now, old) ==
    LET s1 == [old EXCEPT !.avg_macronutrients = <<avg_macros>>]
        s2 == [s1 EXCEPT !.detailed_statistics = <<detailed_stats(df.rows)>>]
        s3 == [s2 EXCEPT !.metadata = <<metadata(df.rows, now)>>]
        s4 == [s3 EXCEPT !.diet_documents = <<documents(avg_macros, df.rows, now)>>]
    IN  IF "Cuisine_type" \notin df.columns /\ df.rows # <<>>
        THEN [store |-> s1, saved |-> <<"avg_macronutrients.json">>, raised |-> TRUE]
        ELSE IF "Cuisine_type" \notin df.columns
        THEN [store |-> [s1 EXCEPT !.detailed_statistics = << <<>> >>],
              saved |-> <<"avg_macronutrients.json", "detailed_statistics.json">>,
              raised |-> TRUE]
        ELSE [store |-> s4,
              saved |-> <<"avg_macronutrients.json", "detailed_statistics.json",
                          "metadata.json", "diet_documents.json">>,
              raised |-> FALSE]

\* process_data, were a failed run to leave an empty simulated_nosql directory.
ProcessData_clearing(connected, local_csv, upload_ok, download_ok) ==
    /\ clock < MaxRuns
    /\ LET now == clock + 1
           uploaded == connected /\ local_csv # <<>> /\ upload_ok
           blob1 == IF uploaded THEN local_csv ELSE blob
           status0 ==
               IF ~connected THEN FailedConnection
               ELSE IF local_csv # <<>> /\ ~upload_ok THEN FailedUpload
               ELSE IF blob1 = <<>> \/ ~download_ok THEN FailedRead
               ELSE Success
       \* out is bound by \E so that store_in_nosql is evaluated once per step.
       IN  \E out \in {IF status0 = Success
                  THEN store_in_nosql(calculate_averages(blob1[1]), blob1[1], now, store)
                  ELSE [store |-> EmptyStore, saved |-> <<>>, raised |-> FALSE]} :
           /\ clock' = now
           /\ prior' = [blob |-> blob, store |-> store, status |-> ret.status]
           /\ blob' = blob1
           /\ store' = out.store
           /\ ret' = [status |-> IF out.raised THEN Raised ELSE status0,
                      saved |-> out.saved,
                      queried |-> FALSE, diet_type |-> <<>>,
                      printed |-> <<>>, value |-> <<>>]
    /\ UNCHANGED <<csv, analysis>>

\* process_data(local_csv_path).  local_csv is <<>> when no path is given or the path
\* does not exist, else <<df>>, the content of the local file; connected, upload_ok
\* and download_ok say whether Azurite answers test_azurite_connection,
\* upload_csv_to_azurite and read_csv_from_azurite.
ProcessData(connected, local_csv, upload_ok, download_ok) ==
    /\ clock < MaxRuns
    /\ LET now == clock + 1
           uploaded == connected /\ local_csv # <<>> /\ upload_ok
           blob1 == IF uploaded THEN local_csv ELSE blob
           status0 ==
               IF ~connected THEN FailedConnection
               ELSE IF local_csv # <<>> /\ ~upload_ok THEN FailedUpload
               ELSE IF blob1 = <<>> \/ ~download_ok THEN FailedRead
               ELSE Success
       \* out is bound by \E so that store_in_nosql is evaluated once per step.
       IN  \E out \in {IF status0 = Success
                  THEN store_in_nosql(calculate_averages(blob1[1]), blob1[1], now, store)
                  ELSE [store |-> store, saved |-> <<>>, raised |-> FALSE]} :
           /\ clock' = now
           /\ prior' = [blob |-> blob, store |-> store, status |-> ret.status]
           /\ blob' = blob1
           /\ store' = out.store
           /\ ret' = [status |-> IF out.raised THEN Raised ELSE status0,
                      saved |-> out.saved,
                      queried |-> FALSE, diet_type |-> <<>>,
                      printed |-> <<>>, value |-> <<>>]
    /\ UNCHANGED <<csv, analysis>>

\* The list query_nosql prints for a diet_type (result, lines 231-235).
query_result(docs, diet_type) ==
    SelectSeq(docs, LAMBDA doc : lower(doc.diet_type) = lower(diet_type))

\* The list query_nosql returns once diet_documents.json is loaded (line 247): documents.
query_documents(docs, diet_type) == docs

\* query_nosql(diet_type).  diet_type is <<>> for None and for "" (both falsy).  The
\* return value is <<>> for None (FileNotFoundError) and <<documents>> otherwise.
QueryNosql(diet_type) ==
    /\ ret' = [ret EXCEPT
                 !.queried = TRUE,
                 !.diet_type = diet_type,
                 !.printed = IF store.diet_documents # <<>> /\ diet_type # <<>>
                             THEN query_result(store.diet_documents[1], diet_type)
                             ELSE <<>>,
                 !.value = IF store.diet_documents = <<>> THEN <<>>
                           ELSE <<query_documents(store.diet_documents[1], diet_type)>>]
    /\ UNCHANGED <<blob, store, clock, prior, csv, analysis>>

(***************************************************************************)
(* data_analysis.py                                                        *)
(***************************************************************************)
numeric_columns == <<"Protein_g", "Carbs_g", "Fat_g">>

\* Series.fillna(value): NaN entries become value.
fillna(x, value) == IF isna(x) THEN value ELSE x

\* load_and_clean_data: df[col].fillna(df[col].mean(), inplace=True) for the three
\* numeric columns, the mean being that of the whole column (all diet types).  The
\* fill is modelled as taking effect on df, as the script intends.
load_and_clean_data(df) ==
    [df EXCEPT !.rows =
        [i \in DOMAIN df.rows |->
            [df.rows[i] EXCEPT
                !.Protein_g = fillna(@, mean(Column(df.rows, "Protein_g"))),
                !.Carbs_g = fillna(@, mean(Column(df.rows, "Carbs_g"))),
                !.Fat_g = fillna(@, mean(Column(df.rows, "Fat_g")))]]]

\* calculate_average_macros: df.groupby("Diet_type")[[...]].mean()
calculate_average_macros(df) ==
    LET keys == group_keys(df.rows)
    IN  [i \in DOMAIN keys |->
            LET g == RowsOf(df.rows, keys[i])
            IN  [Diet_type |-> keys[i],
                 Protein_g |-> mean(Column(g, "Protein_g")),
                 Carbs_g |-> mean(Column(g, "Carbs_g")),
                 Fat_g |-> mean(Column(g, "Fat_g"))]]

\* np.where(cond, x, y) on one element.
np_where(cond, x, y) == IF cond THEN x ELSE y

\* Series != 0 on one element: NaN != 0 is True.
ne_zero(x) == ~IsZero(x)

\* A mutant of ratio: the plain quotient, without np.where.
ratio_unguarded(num, den) == np_divide(num, den)

\* np.where(den != 0, num / den, np.nan) on one row.
ratio(num, den) == np_where(ne_zero(den), np_divide(num, den), NaN)

\* add_new_metrics: the two ratio columns, row by row.
add_new_metrics(df) ==
    [i \in DOMAIN df.rows |->
        LET r == df.rows[i]
        IN  [Diet_type |-> r.Diet_type, Cuisine_type |-> r.Cuisine_type,
             Protein_g |-> r.Protein_g, Carbs_g |-> r.Carbs_g, Fat_g |-> r.Fat_g,
             Protein_to_Carbs_ratio |-> ratio(r.Protein_g, r.Carbs_g),
             Carbs_to_Fat_ratio |-> ratio(r.Carbs_g, r.Fat_g)]]

NoAnalysis == [status |-> NotCalled, cleaned |-> <<>>, avg_macros |-> <<>>, processed |-> <<>>]

\* data_analysis.main on an existing All_Diets.csv: load_and_clean_data,
\* calculate_average_macros, the printing steps, add_new_metrics.  find_top_protein_recipes
\* and find_common_cuisines read Cuisine_type: without that column the except branch of
\* main reports the error and nothing is computed further.
AnalysisMain ==
    /\ csv # <<>>
    /\ LET df == load_and_clean_data(csv[1])
       IN  analysis' =
              IF "Cuisine_type" \notin df.columns
              THEN [status |-> "Error occurred", cleaned |-> df.rows,
                    avg_macros |-> calculate_average_macros(df), processed |-> <<>>]
              ELSE [status |-> "ANALYSIS COMPLETE!", cleaned |-> df.rows,
                    avg_macros |-> calculate_average_macros(df),
                    processed |-> add_new_metrics(df)]
    /\ UNCHANGED <<blob, store, clock, prior, ret, csv>>

(***************************************************************************)
(* Inputs                                                                  *)
(***************************************************************************)
paleo == <<"p", "a", "l", "e", "o">>
Paleo == <<"P", "a", "l", "e", "o">>
keto == <<"k", "e", "t", "o">>
LowCarb == <<"L", "o", "w", " ", "C", "a", "r", "b">>
low_carb == <<"l", "o", "w", " ", "c", "a", "r", "b">>
Low_Carb == <<"L", "o", "w", "_", "C", "a", "r", "b">>

american == "american"
asian == "asian"
french == "french"
indian == "indian"
italian == "italian"
mexican == "mexican"

AllColumns == {"Diet_type", "Cuisine_type", "Protein_g", "Carbs_g", "Fat_g"}

Row(d, c, p, cb, f) ==
    [Diet_type |-> d, Cuisine_type |-> c, Protein_g |-> p, Carbs_g |-> cb, Fat_g |-> f]

\* A row of a CSV that has no Cuisine_type column.
RowNoCuisine(d, p, cb, f) == [Diet_type |-> d, Protein_g |-> p, Carbs_g |-> cb, Fat_g |-> f]

SeqsOf(S, lo, hi) == UNION {[1..k -> S] : k \in lo..hi}

\* The local files AllDiets.csv handed to process_data: up to MaxRecords rows, with
\* the Cuisine_type column (the empty file included) or without it.
LocalRows ==
    {Row(paleo, american, Float(30), Float(5), Float(10)),
     Row(LowCarb, american, Float(20), Float(0), Float(10))}

LocalRowsNoCuisine == {RowNoCuisine(LowCarb, Float(20), Float(0), Float(10))}

LocalFiles ==
    {<<[columns |-> AllColumns, rows |-> r]>> : r \in SeqsOf(LocalRows, 0, MaxRecords)}
    \cup {<<[columns |-> AllColumns \ {"Cuisine_type"}, rows |-> r]>> :
             r \in SeqsOf(LocalRowsNoCuisine, 1, MaxRecords)}

\* The diet_type arguments of query_nosql; <<>> is None.
Queries == {<<>>, Paleo, keto, low_carb}

\* The files of the aggregation checks: numeric fields may be NaN or 0.
DataRows ==
    {Row(d, american, p, cb, f) :
        d \in {paleo, LowCarb},
        p \in {NaN, Float(10), Float(25)},
        cb \in {NaN, Float(0), Float(5)},
        f \in {Float(0), Float(10)}}

DataFile(rows) == <<[columns |-> AllColumns, rows |-> rows]>>

\* The files of the cuisine ranking checks: up to MaxCuisineRows rows of two diet
\* types and six cuisines.  The program only compares cuisine names for equality, so
\* every file is, up to a renaming of its cuisines, one in which the cuisines first
\* appear in the order of CuisineOrder; only those are generated.
CuisineOrder == <<american, asian, french, indian, italian, mexican>>

\* The cuisines of a file of n rows, as indices into CuisineOrder: a cuisine appears
\* only after the cuisines before it in CuisineOrder.
CuisineSeqs(n) ==
    {f \in [1..n -> 1..Len(CuisineOrder)] :
        \A i \in 1..n : \A j \in 2..f[i] : \E h \in 1..(i - 1) : f[h] = j - 1}

CuisineFile(n, diets, cuisines) ==
    <<[columns |-> AllColumns,
       rows |-> [i \in 1..n |->
                    Row(diets[i], CuisineOrder[cuisines[i]], Float(30), Float(5), Float(10))]]>>

\* The files of the diet type spelling checks: up to MaxCaseRows rows whose diet types
\* may differ only in letter case or in space versus underscore.
CaseRows ==
    {Row(d, american, Float(30), Float(5), Float(10)) : d \in {paleo, Paleo, LowCarb, Low_Carb}}

(***************************************************************************)
(* Specifications                                                          *)
(***************************************************************************)
NoReturn ==
    [status |-> NotCalled, saved |-> <<>>, queried |-> FALSE, diet_type |-> <<>>,
     printed |-> <<>>, value |-> <<>>]

\* A fresh machine: no blob, no simulated_nosql directory, nothing called yet.
Init ==
    /\ blob = <<>>
    /\ store = EmptyStore
    /\ clock = 0
    /\ prior = [blob |-> <<>>, store |-> EmptyStore, status |-> NotCalled]
    /\ ret = NoReturn
    /\ csv = <<>>
    /\ analysis = NoAnalysis

Next ==
    \/ \E connected \in BOOLEAN, local_csv \in LocalFiles \cup {<<>>},
          upload_ok \in BOOLEAN, download_ok \in BOOLEAN :
            ProcessData(connected, local_csv, upload_ok, download_ok)
    \/ \E diet_type \in Queries : QueryNosql(diet_type)

Spec == Init /\ [][Next]_vars

\* The aggregation checks: one CSV, present both as the blob process_data() reads and
\* as the file data_analysis.py reads.
InitData ==
    /\ \E rows \in SeqsOf(DataRows, 1, MaxRows) : csv = DataFile(rows)
    /\ blob = csv
    /\ store = EmptyStore
    /\ clock = 0
    /\ prior = [blob |-> <<>>, store |-> EmptyStore, status |-> NotCalled]
    /\ ret = NoReturn
    /\ analysis = NoAnalysis

\* One run of process_data() and runs of data_analysis.py.
NextData ==
    \/ clock = 0 /\ ProcessData(TRUE, <<>>, TRUE, TRUE)
    \/ AnalysisMain

SpecData == InitData /\ [][NextData]_vars

\* The cuisine ranking checks: process_data() on a blob already in Azurite.
InitCuisine ==
    /\ \E n \in 1..MaxCuisineRows :
         \E cuisines \in CuisineSeqs(n), diets \in [1..n -> {paleo, LowCarb}] :
            blob = CuisineFile(n, diets, cuisines)
    /\ store = EmptyStore
    /\ clock = 0
    /\ prior = [blob |-> <<>>, store |-> EmptyStore, status |-> NotCalled]
    /\ ret = NoReturn
    /\ csv = <<>>
    /\ analysis = NoAnalysis

\* One run of process_data(); the later runs are those of Spec.
NextCuisine == clock = 0 /\ ProcessData(TRUE, <<>>, TRUE, TRUE)

SpecCuisine == InitCuisine /\ [][NextCuisine]_vars

\* The diet type spelling checks: process_data() on a blob already in Azurite, and
\* the queries of it.
InitCase ==
    /\ \E rows \in SeqsOf(CaseRows, 1, MaxCaseRows) :
          blob = <<[columns |-> AllColumns, rows |-> rows]>>
    /\ store = EmptyStore
    /\ clock = 0
    /\ prior = [blob |-> <<>>, store |-> EmptyStore, status |-> NotCalled]
    /\ ret = NoReturn
    /\ csv = <<>>
    /\ analysis = NoAnalysis

NextCase ==
    \/ clock = 0 /\ ProcessData(TRUE, <<>>, TRUE, TRUE)
    \/ \E diet_type \in Queries : QueryNosql(diet_type)

SpecCase == InitCase /\ [][NextCase]_vars

(***************************************************************************)
(* Properties                                                              *)
(***************************************************************************)
Files == {"avg_macronutrients.json", "detailed_statistics.json", "metadata.json",
          "diet_documents.json"}

DietsOf(rows) == {rows[i].Diet_type : i \in DOMAIN rows}

\* Two strings are equal up to the case of their letters.
EqualIgnoringCase(a, b) ==
    /\ Len(a) = Len(b)
    /\ \A i \in DOMAIN a : lower_char(a[i]) = lower_char(b[i])

\* The documents of docs whose diet_type is the given one up to case, in stored order.
MatchingDocuments(docs, diet_type) ==
    SelectSeq(docs, LAMBDA doc : EqualIgnoringCase(doc.diet_type, diet_type))

\* C1: query_nosql called with a diet_type on a persisted documents file returns
\* exactly the stored documents whose diet_type equals it case-insensitively, in
\* stored order (the empty list when none matches).
C1_QueryReturnsMatchingSubset ==
    (ret.queried /\ ret.diet_type # <<>> /\ store.diet_documents # <<>>)
        => ret.value = <<MatchingDocuments(store.diet_documents[1], ret.diet_type)>>

\* The four files as one successful store_in_nosql writes them from df at time now.
ArtifactsOf(df, now) ==
    [avg_macronutrients |-> <<calculate_averages(df)>>,
     detailed_statistics |-> <<detailed_stats(df.rows)>>,
     metadata |-> <<metadata(df.rows, now)>>,
     diet_documents |-> <<documents(calculate_averages(df), df.rows, now)>>]

\* C2: once a run of process_data has ended, either it succeeded and all four
\* artifacts are those of the Record set it read, or it returned a failure status
\* and wrote nothing, the store being as it was before the run.
C2_RunIsAllOrNothing ==
    ret.status # NotCalled =>
        \/ /\ ret.status = Success
           /\ Range(ret.saved) = Files
           /\ store = ArtifactsOf(blob[1], clock)
        \/ /\ ret.status \in {FailedConnection, FailedUpload, FailedRead}
           /\ ret.saved = <<>>
           /\ store = prior.store

\* C3: a query issued while no documents file has been written returns None, and a
\* query for a diet_type that no persisted document matches returns the empty list,
\* which is not None.
C3_NotFoundVersusNoMatch ==
    ret.queried =>
        /\ store.diet_documents = <<>> => ret.value = <<>>
        /\ (/\ store.diet_documents # <<>>
            /\ ret.diet_type # <<>>
            /\ MatchingDocuments(store.diet_documents[1], ret.diet_type) = <<>>)
               => ret.value = << <<>> >>

\* The diet types named by each persisted artifact.
DietsInMeans(st) == {st.avg_macronutrients[1][i].Diet_type : i \in DOMAIN st.avg_macronutrients[1]}
DietsInStats(st) == {st.detailed_statistics[1][i].diet_type : i \in DOMAIN st.detailed_statistics[1]}
DietsInDocuments(st) == {st.diet_documents[1][i].diet_type : i \in DOMAIN st.diet_documents[1]}

\* C4: after a successful run the persisted means, detailed statistics and documents
\* name exactly the diet types of the Record set that run read, whatever earlier runs
\* had persisted.
C4_OnlyLatestRecordSet ==
    ret.status = Success =>
        /\ DietsInMeans(store) = DietsOf(blob[1].rows)
        /\ DietsInStats(store) = DietsOf(blob[1].rows)
        /\ DietsInDocuments(store) = DietsOf(blob[1].rows)
        /\ Len(store.avg_macronutrients[1]) = Cardinality(DietsOf(blob[1].rows))
        /\ Len(store.detailed_statistics[1]) = Cardinality(DietsOf(blob[1].rows))
        /\ Len(store.diet_documents[1]) = Cardinality(DietsOf(blob[1].rows))

\* A successful run after an earlier successful run whose documents named a diet type
\* that the latest Record set does not hold.
C4_Witness ==
    /\ ret.status = Success
    /\ prior.status = Success
    /\ prior.store.diet_documents # <<>>
    /\ \E d \in DietsInDocuments(prior.store) : d \notin DietsOf(blob[1].rows)
    /\ blob[1].rows # <<>>

RECURSIVE SumOfCounts(_)
SumOfCounts(stats) ==
    IF stats = <<>> THEN 0 ELSE stats[1].count + SumOfCounts(Tail(stats))

\* C5: after a successful run the counts of the detailed statistics add up to the
\* number of Records, which is the metadata's total_records, there is one count per
\* diet type of the Record set, and each count is the number of Records of that diet type.
C5_CountsAddUp ==
    ret.status = Success =>
        LET rows == blob[1].rows
            stats == store.detailed_statistics[1]
        IN  /\ SumOfCounts(stats) = Len(rows)
            /\ store.metadata[1].total_records = Len(rows)
            /\ DietsInStats(store) = DietsOf(rows)
            /\ \A i \in DOMAIN stats :
                  stats[i].count =
                      Cardinality({j \in DOMAIN rows : rows[j].Diet_type = stats[i].diet_type})

\* Two diet types with different numbers of Records.
C5_Witness ==
    /\ ret.status = Success
    /\ Len(blob[1].rows) = 4
    /\ \E i, j \in DOMAIN store.detailed_statistics[1] :
          /\ store.detailed_statistics[1][i].count = 3
          /\ store.detailed_statistics[1][j].count = 1

\* The indices of the rows of diet type d whose field f is not null.
NonNull(rows, d, f) == {i \in DOMAIN rows : rows[i].Diet_type = d /\ ~isna(rows[i][f])}

RECURSIVE SumOver(_, _, _)
SumOver(rows, f, idx) ==
    IF idx = {} THEN Float(0)
    ELSE LET i == CHOOSE i \in idx : TRUE
         IN  FAdd(rows[i][f], SumOver(rows, f, idx \ {i}))

\* m is the arithmetic mean of field f over the rows of idx: m * |idx| = sum, and m
\* is undefined when idx is empty.
IsMeanOver(m, rows, f, idx) ==
    IF idx = {} THEN isna(m)
    ELSE LET t == SumOver(rows, f, idx)
         IN  IsFinite(m) /\ m.n * t.d * Cardinality(idx) = t.n * m.d

\* avg holds, for each diet type of rows and each macronutrient field, the mean over
\* the rows of that diet type whose value for the field is not null.
IsNullExcludingMeans(avg, rows) ==
    /\ {avg[i].Diet_type : i \in DOMAIN avg} = DietsOf(rows)
    /\ Len(avg) = Cardinality(DietsOf(rows))
    /\ \A i \in DOMAIN avg : \A f \in Range(numeric_columns) :
          IsMeanOver(avg[i][f], rows, f, NonNull(rows, avg[i].Diet_type, f))

\* C6 as stated: in both scripts the means are the null-excluding means of the Records.
C6_BothScriptsExcludeNulls ==
    /\ ret.status = Success => IsNullExcludingMeans(store.avg_macronutrients[1], blob[1].rows)
    /\ analysis.status # NotCalled => IsNullExcludingMeans(analysis.avg_macros, csv[1].rows)

\* cleaned is rows with every null of a numeric field replaced by the mean of the
\* non-null values of that field over all rows (and left null when there is none).
IsImputed(cleaned, rows) ==
    /\ Len(cleaned) = Len(rows)
    /\ \A i \in DOMAIN rows :
          /\ cleaned[i].Diet_type = rows[i].Diet_type
          /\ \A f \in Range(numeric_columns) :
                IF ~isna(rows[i][f]) THEN cleaned[i][f] = rows[i][f]
                ELSE IsMeanOver(cleaned[i][f], rows, f,
                                {j \in DOMAIN rows : ~isna(rows[j][f])})

\* C6 as amended: calculate_averages yields the null-excluding means of the Records
\* read from the blob; calculate_average_macros yields the means of the Records in
\* which load_and_clean_data has replaced every null by the mean of its column, so
\* that a null Record counts in its diet type's mean with the column mean.
C6_MeansPerScript ==
    /\ ret.status = Success => IsNullExcludingMeans(store.avg_macronutrients[1], blob[1].rows)
    /\ analysis.status # NotCalled =>
          /\ IsImputed(analysis.cleaned, csv[1].rows)
          /\ IsNullExcludingMeans(analysis.avg_macros, analysis.cleaned)

\* Both scripts have run on one CSV in which a protein value is null, and their means
\* differ.
C6_Witness ==
    /\ ret.status = Success
    /\ analysis.status # NotCalled
    /\ blob = csv
    /\ \E i \in DOMAIN csv[1].rows : isna(csv[1].rows[i].Protein_g)
    /\ \E i \in DOMAIN csv[1].rows : ~isna(csv[1].rows[i].Protein_g)
    /\ analysis.avg_macros # store.avg_macronutrients[1]

\* q is the quotient num / den of two floats.
IsQuotient(q, num, den) ==
    /\ IsFinite(q) /\ IsFinite(num) /\ IsFinite(den)
    /\ q.n * den.n * num.d = num.n * den.d * q.d

\* C7 as stated: in the frame add_new_metrics returns, protein_to_carbs is undefined
\* exactly when carbs is 0 and carbs_to_fat exactly when fat is 0, no ratio is
\* infinite, and a ratio whose denominator is not 0 is the quotient.
C7_UndefinedExactlyAtZero ==
    \A i \in DOMAIN analysis.processed :
        LET r == analysis.processed[i]
        IN  /\ isna(r.Protein_to_Carbs_ratio) <=> IsZero(r.Carbs_g)
            /\ isna(r.Carbs_to_Fat_ratio) <=> IsZero(r.Fat_g)
            /\ r.Protein_to_Carbs_ratio \notin {Inf, NegInf}
            /\ r.Carbs_to_Fat_ratio \notin {Inf, NegInf}
            /\ ~IsZero(r.Carbs_g) => IsQuotient(r.Protein_to_Carbs_ratio, r.Protein_g, r.Carbs_g)
            /\ ~IsZero(r.Fat_g) => IsQuotient(r.Carbs_to_Fat_ratio, r.Carbs_g, r.Fat_g)

\* q is undefined exactly when den is 0 or num or den is null, is never infinite, and
\* is otherwise the quotient.
IsGuardedRatio(q, num, den) ==
    /\ isna(q) <=> (IsZero(den) \/ isna(den) \/ isna(num))
    /\ q \notin {Inf, NegInf}
    /\ ~isna(q) => IsQuotient(q, num, den)

\* C7 as amended: a ratio of add_new_metrics is undefined exactly when its denominator
\* is 0 or its numerator or denominator is null, it is never infinite, and otherwise
\* it is the quotient.
C7_UndefinedAtZeroOrNull ==
    \A i \in DOMAIN analysis.processed :
        LET r == analysis.processed[i]
        IN  /\ IsGuardedRatio(r.Protein_to_Carbs_ratio, r.Protein_g, r.Carbs_g)
            /\ IsGuardedRatio(r.Carbs_to_Fat_ratio, r.Carbs_g, r.Fat_g)

\* A processed frame with a Record whose carbs are 0 and protein is not (the quotient
\* would be infinite) and a Record for which both ratios are defined.
C7_Witness ==
    /\ \E i \in DOMAIN analysis.processed :
          LET r == analysis.processed[i]
          IN  IsZero(r.Carbs_g) /\ r.Protein_g.n > 0 /\ isna(r.Protein_to_Carbs_ratio)
    /\ \E i \in DOMAIN analysis.processed :
          LET r == analysis.processed[i]
          IN  IsFinite(r.Protein_to_Carbs_ratio) /\ IsFinite(r.Carbs_to_Fat_ratio)
              /\ r.Carbs_to_Fat_ratio.d > 1

\* The cuisines of the Records of diet type d, in order.
CuisinesOf(rows, d) == Column(RowsOf(rows, d), "Cuisine_type")

Occurrences(cs, c) == Cardinality({i \in DOMAIN cs : cs[i] = c})

FirstSeen(cs, c) == CHOOSE i \in DOMAIN cs : cs[i] = c /\ \A j \in 1..(i - 1) : cs[j] # c

\* Cuisine a ranks before cuisine b: it is more frequent, or as frequent and seen first.
RanksBefore(cs, a, b) ==
    \/ Occurrences(cs, a) > Occurrences(cs, b)
    \/ Occurrences(cs, a) = Occurrences(cs, b) /\ FirstSeen(cs, a) < FirstSeen(cs, b)

\* top is the k best ranked cuisines of cs (all of them when there are fewer), each
\* with its count, best first.
IsTopCuisines(top, cs, k) ==
    /\ Len(top) = (IF Cardinality(Range(cs)) < k THEN Cardinality(Range(cs)) ELSE k)
    /\ \A i \in DOMAIN top :
          /\ top[i].value \in Range(cs)
          /\ top[i].count = Occurrences(cs, top[i].value)
    /\ \A i, j \in DOMAIN top : i < j => RanksBefore(cs, top[i].value, top[j].value)
    /\ \A c \in Range(cs) \ {top[i].value : i \in DOMAIN top} :
          \A i \in DOMAIN top : RanksBefore(cs, top[i].value, c)

C8_WitnessDocuments ==
    /\ ret.status = Success
    /\ Cardinality(Range(Column(blob[1].rows, "Cuisine_type"))) = 6
    /\ Len(store.diet_documents[1]) = 1
    /\ Len(store.diet_documents[1][1].cuisines) = 5

\* The persisted means, detailed statistics and documents without their timestamps.
ContentOf(st) ==
    [means |-> st.avg_macronutrients,
     stats |-> st.detailed_statistics,
     docs |-> IF st.diet_documents = <<>> THEN <<>>
              ELSE << [i \in DOMAIN st.diet_documents[1] |->
                        LET doc == st.diet_documents[1][i]
                        IN  [id |-> doc.id, diet_type |-> doc.diet_type,
                             macronutrients |-> doc.macronutrients,
                             recipe_count |-> doc.recipe_count,
                             cuisines |-> doc.cuisines]] >>]

\* C9: when a successful run follows a successful run and reads the same Record set,
\* the means, detailed statistics and documents it persists are, timestamps apart,
\* those the earlier run had persisted, in the same order.
C9_RerunSameContent ==
    (ret.status = Success /\ prior.status = Success /\ prior.blob = blob)
        => ContentOf(store) = ContentOf(prior.store)

\* Two successful runs on the same Record set of two diet types; the stores differ
\* by their timestamps.
C9_Witness ==
    /\ ret.status = Success
    /\ prior.status = Success
    /\ prior.blob = blob
    /\ Len(store.diet_documents[1]) = 2
    /\ store # prior.store

\* id is diet_type lower-cased with its spaces replaced by underscores.
IsIdOf(id, diet_type) ==
    /\ Len(id) = Len(diet_type)
    /\ \A k \in DOMAIN diet_type :
          id[k] = (IF diet_type[k] = " " THEN "_" ELSE lower_char(diet_type[k]))

\* C10: the documents are one per diet type of the means, in the order of the means;
\* each has the number of Records of its diet type as recipe_count, that diet type's
\* means as macronutrients, and the lower-cased, underscored diet type as id.
C10_DocumentsFollowMeans ==
    ret.status = Success =>
        LET rows == blob[1].rows
            means == store.avg_macronutrients[1]
            docs == store.diet_documents[1]
        IN  /\ Len(docs) = Len(means)
            /\ \A i, j \in DOMAIN means : i # j => means[i].Diet_type # means[j].Diet_type
            /\ \A i \in DOMAIN docs :
                  /\ docs[i].diet_type = means[i].Diet_type
                  /\ docs[i].recipe_count =
                        Cardinality({j \in DOMAIN rows : rows[j].Diet_type = docs[i].diet_type})
                  /\ docs[i].macronutrients =
                        [protein_g |-> means[i].Protein_g, carbs_g |-> means[i].Carbs_g,
                         fat_g |-> means[i].Fat_g]
                  /\ IsIdOf(docs[i].id, docs[i].diet_type)

\* Two diet types, "Low Carb" read after "paleo" and placed before it, with the id
\* low_carb and a mean that is not an input value.
C10_Witness ==
    /\ ret.status = Success
    /\ Len(store.diet_documents[1]) = 2
    /\ blob[1].rows[1].Diet_type = paleo
    /\ store.diet_documents[1][1].id = <<"l", "o", "w", "_", "c", "a", "r", "b">>
    /\ store.diet_documents[1][2].recipe_count = 1
    /\ isna(store.diet_documents[1][2].macronutrients.carbs_g)

\* C11: no two persisted documents have diet types that are equal up to letter case,
\* nor equal ids, so that a query with a diet_type matches at most one of them; this
\* for Record sets whose diet types differ only in case or in space versus underscore.
C11_AtMostOneMatch ==
    store.diet_documents # <<>> =>
        LET docs == store.diet_documents[1]
        IN  /\ \A i, j \in DOMAIN docs : i # j =>
                  /\ ~EqualIgnoringCase(docs[i].diet_type, docs[j].diet_type)
                  /\ docs[i].id # docs[j].id
            /\ (ret.queried /\ ret.diet_type # <<>>)
                  => Len(MatchingDocuments(docs, ret.diet_type)) <= 1

\* C12: a run of process_data that fails at the connection test, the upload or the
\* blob read returns its failure status and writes no artifact, the store being as it
\* was before the run; a query after it returns None when there is no documents file,
\* and otherwise documents of the earlier run: all of them when no diet_type is given,
\* and with a diet_type only stored documents, the matching ones among them.
C12_FailedRunLeavesStore ==
    ret.status \in {FailedConnection, FailedUpload, FailedRead} =>
        /\ ret.saved = <<>>
        /\ store = prior.store
        /\ ret.queried =>
              /\ store.diet_documents = <<>> => ret.value = <<>>
              /\ store.diet_documents # <<>> =>
                    LET stale == prior.store.diet_documents[1]
                    IN  /\ ret.value # <<>>
                        /\ ret.diet_type = <<>> => ret.value[1] = stale
                        /\ Range(ret.value[1]) \subseteq Range(stale)
                        /\ Range(MatchingDocuments(stale, ret.diet_type))
                              \subseteq Range(ret.value[1])

\* A successful run on two diet types, then a run that fails at the upload, then a
\* query for "Paleo", which the stale documents match.
C12_Witness ==
    /\ ret.status = FailedUpload
    /\ prior.status = Success
    /\ ret.queried
    /\ ret.diet_type = Paleo
    /\ Len(store.diet_documents[1]) = 2
    /\ Len(ret.printed) = 1
    /\ store.metadata[1].processed_at < clock

====
